---- MODULE Spec2Model ----
(***************************************************************************)
(* Web Stryker R7 (Python edition): the extraction pipeline and its        *)
(* control plane.                                                          *)
(*                                                                         *)
(* The model follows src/extraction-service.py (process_batch_urls,        *)
(* process_url, extract_data, fetch_content), the product-link loop of     *)
(* src/extractors-base.py and the ExtractionState registry and GlobalStats *)
(* of src/domain-models.py.                                                *)
(*                                                                         *)
(* process_batch_urls runs on one asyncio event loop.  The coroutines it   *)
(* creates contain no suspension point other than the semaphore: the HTTP  *)
(* calls (requests.get) and the sleeps (time.sleep) block the loop's       *)
(* thread.  pause, resume and stop arrive from other threads (the web      *)
(* request handlers) and interleave with every step of a run.              *)
(*                                                                         *)
(* Specifications: Spec (a batch), SpecRun (one URL under control          *)
(* requests), FairRun (SpecRun with the run's thread scheduled fairly),    *)
(* FairBatch (a batch with any cap from 0, its steps taken fairly),        *)
(* SpecCrawl (one URL of a catalogue site), SpecWeb (the runs that the     *)
(* /extract handler of src/web-application.py starts, one thread each),    *)
(* SpecStop (one such run and a stop request), SpecEnrich (one such run    *)
(* over a company site, with the enrichment services of AiEnricher),       *)
(* SpecBatches (the batches that the /batch handler starts, one thread     *)
(* each) and SpecRegistry (the operations of ExtractionState in any        *)
(* order).                                                                 *)
(***************************************************************************)
EXTENDS Integers, Sequences, FiniteSets, TLC

\* ---------------------------------------------------------------- bounds
MaxUrls == 2
MaxCap == 2
MaxLinks == 1
MaxShopLinks == 3
MaxRequests == 3
MaxPosts == 2
MaxClock == 1

\* ------------------------------------------------------------- constants
MAX_RETRIES == 3
max_products == 2

Urls == {"https://a.com", "not a url"}
ProductUrls == {"/p1", "/p2"}

\* a site with a catalogue: its products page, and the URLs its pages link
Shop == "https://shop.com"
products_page_url == "/products"
ShopUrls == {"/p1", "/p2", products_page_url}
Jitter == {0, 999}

\* a site whose pages name a company
Corp == "https://corp.com"
PageTitle == "<title>Acme</title>"
PageSoftware == "<title>Acme</title> software"
PageShop == "<title>Acme</title><meta name=\"description\" content=\"Tool shop.\"><nav class=\"breadcrumb\"><a>Home</a><a>Tools</a></nav>"
PageAnonymous == "retail"
PageLd == "<title>Acme</title><script type=\"application/ld+json\">{\"organization\": 5}</script> retail"
CorpPages == {PageTitle, PageSoftware, PageShop, PageAnonymous, PageLd}

VARIABLES
    urls,             \* argument urls of process_batch_urls
    concurrent_limit, \* argument concurrent_limit
    bpc,              \* position of process_batch_urls
    results,          \* the results dict of process_batch_urls
    semaphore,        \* value of asyncio.Semaphore(concurrent_limit)
    task,             \* per URL: position and locals of process_url_with_limit
    completed,        \* finished tasks that as_completed has not yet yielded
    collected,        \* history: the runs in the order the coordinator took them
    states,           \* ExtractionState._extraction_states
    global_stats,     \* the GlobalStats singleton (scalar counters)
    requests,         \* control requests the other threads will still send
    clock,            \* int(time.time()), the seconds the front end reads
    web,              \* extraction ids the /extract handler gave to its runs
    batches,          \* the threads the /batch handler started, one per form
    config            \* which API keys the configuration holds

vars == <<urls, concurrent_limit, bpc, results, semaphore, task, completed,
          collected, states, global_stats, requests, clock, web, batches,
          config>>

\* the state of the web front end
FrontEnd == <<clock, web, batches>>

\* ------------------------------------------------------------ pure parts

RECURSIVE Pow2(_)
Pow2(n) == IF n = 0 THEN 1 ELSE 2 * Pow2(n - 1)

\* sequences over S of length 0..n
RECURSIVE SeqsUpTo(_, _)
SeqsUpTo(S, n) ==
    IF n = 0 THEN {<<>>}
    ELSE LET shorter == SeqsUpTo(S, n - 1)
         IN shorter \cup {Append(s, x) : s \in {t \in shorter : Len(t) = n - 1}, x \in S}

\* dict.get(key, default)
DictGet(d, key, default) == IF key \in DOMAIN d THEN d[key] ELSE default

\* the regular expression of validate_url accepts a scheme-prefixed
\* dotted host and rejects text with spaces and no dotted host
validate_url(url) == url \in {"https://a.com", Shop, Corp}

\* f"{batch_id}-{index}", index counted from 0
BatchExtractionId(i) == <<"batch", i - 1>>

\* ------------------------------------------------------- ExtractionState

None == "<None>"

\* the dict that ExtractionState.__init__ stores
NewEntry(url) ==
    [paused |-> FALSE, stopped |-> FALSE, url |-> url,
     progress |-> 0, stage |-> "Initializing"]

create(reg, id, url) ==
    [x \in DOMAIN reg \cup {id} |-> IF x = id THEN NewEntry(url) ELSE reg[x]]

update_progress(reg, id, progress, stage) ==
    IF id \notin DOMAIN reg THEN reg
    ELSE [reg EXCEPT ![id].progress = progress, ![id].stage = stage]

is_stopped(id) == id \in DOMAIN states /\ states[id].stopped

is_paused(id) == id \in DOMAIN states /\ states[id].paused

\* a pause that flips the flag
pause_toggling(reg, id) ==
    IF id \in DOMAIN reg THEN [reg EXCEPT ![id].paused = ~@] ELSE reg

pause(reg, id) ==
    IF id \in DOMAIN reg THEN [reg EXCEPT ![id].paused = TRUE] ELSE reg

resume(reg, id) ==
    IF id \in DOMAIN reg THEN [reg EXCEPT ![id].paused = FALSE] ELSE reg

stop(reg, id) ==
    IF id \in DOMAIN reg THEN [reg EXCEPT ![id].stopped = TRUE] ELSE reg

\* the company and contact percentages exchanged
ProgressAtSwapped(site) ==
    CASE site = "p_validate" -> 5
      [] site = "p_start"    -> 10
      [] site = "e_fetch"    -> 15
      [] site = "e_company"  -> 40
      [] site = "e_contact"  -> 25
      [] site = "e_product"  -> 60
      [] site = "e_enrich"   -> 80
      [] site = "p_finalize" -> 100

\* the percentage and stage label written at each update_progress call site
ProgressAt(site) ==
    CASE site = "p_validate" -> 5
      [] site = "p_start"    -> 10
      [] site = "e_fetch"    -> 15
      [] site = "e_company"  -> 25
      [] site = "e_contact"  -> 40
      [] site = "e_product"  -> 60
      [] site = "e_enrich"   -> 80
      [] site = "p_finalize" -> 100

StageAt(site) ==
    CASE site = "p_validate" -> "Validating URL"
      [] site = "p_start"    -> "Starting extraction"
      [] site = "e_fetch"    -> "Fetching website content"
      [] site = "e_company"  -> "Extracting company information"
      [] site = "e_contact"  -> "Extracting contact information"
      [] site = "e_product"  -> "Discovering product information"
      [] site = "e_enrich"   -> "Enriching data with AI analysis"
      [] site = "p_finalize" -> "Completed"

Progress(reg, id, site) == update_progress(reg, id, ProgressAt(site), StageAt(site))

\* GlobalStats.__init__: the scalar counters and the api_calls of the two
\* enrichment services
GlobalStats ==
    [processed |-> 0, remaining |-> 0, success |-> 0, fail |-> 0,
     api_calls |-> [azure |-> [success |-> 0, fail |-> 0],
                    knowledge_graph |-> [success |-> 0, fail |-> 0]]]

\* the default configuration: the keys "API.AZURE.OPENAI.KEY" and
\* "API.KNOWLEDGE_GRAPH.KEY" are empty
NoKeys == [azure |-> FALSE, knowledge_graph |-> FALSE]

\* ------------------------------------------------------------ task state

NoResult == [none |-> TRUE]

\* in the history of a run: the service was not called
NotCalled == [kind |-> "not called"]

\* CompanyEntity(): the fields of the company that the stages and the
\* enrichment write (its products are kept next to it, in task)
CompanyEntity ==
    [company_name |-> "", company_description |-> "", company_type |-> ""]

\* a coroutine of process_url_with_limit that has not started; the fields
\* after result are history of the run (what it fetched and executed, the
\* company before the enrichment and between its two calls, and what the
\* two services replied)
NewTask ==
    [pc |-> "created", attempt |-> 0, sleep_time |-> 0, content |-> None,
     product_links |-> <<>>, idx |-> 0, visited |-> {}, products |-> <<>>,
     company |-> CompanyEntity,
     extracted |-> None, enriched |-> None, azure |-> NotCalled,
     knowledge_graph |-> NotCalled,
     loaded |-> 0, result |-> NoResult, calls |-> 0,
     fetch_gets |-> 0, any_get |-> FALSE, stages |-> <<>>, waited |-> "no",
     got200 |-> FALSE, stop_mid_get |-> FALSE, get_after_stop |-> FALSE,
     fetch_end |-> "running", fetched |-> {}, refetched |-> FALSE]

\* a run is in flight from its call of process_url to its return
InFlight(i) == task[i].pc \notin {"created", "sem_wait", "returned", "done"}

\* the coroutine occupies the thread of the event loop: nothing between the
\* semaphore and the return of process_url awaits a pending future
LoopBusy == \E i \in DOMAIN task : task[i].pc \notin {"created", "sem_wait", "done"}

\* the extraction_id argument of run i: the id the /extract handler made
\* for it, or the id process_batch_urls derives from the index
Id(i) == IF i \in DOMAIN web THEN web[i] ELSE BatchExtractionId(i)

\* before process_batch_urls is called: empty registry, zero counters
Fresh ==
    /\ bpc = "call"
    /\ results = NoResult
    /\ semaphore = 0
    /\ task = <<>>
    /\ completed = <<>>
    /\ collected = <<>>
    /\ states = <<>>
    /\ global_stats = GlobalStats
    /\ clock = 0
    /\ web = <<>>
    /\ batches = <<>>
    /\ config = NoKeys

\* a batch: the ids of its runs are made inside process_batch_urls and no
\* page of the front end shows them; one control request, for an id of any
\* of its runs, may still arrive
Init ==
    /\ urls \in SeqsUpTo(Urls, MaxUrls)
    /\ concurrent_limit \in 1..MaxCap
    /\ requests = 1
    /\ Fresh

\* ------------------------------------------------------- batch coordinator

\* process_batch_urls up to the creation of the tasks
BatchStart ==
    /\ bpc = "call"
    /\ IF urls = <<>>
       THEN /\ results' = [success |-> FALSE, error |-> "No URLs provided"]
            /\ bpc' = "returned"
            /\ UNCHANGED <<semaphore, task, global_stats>>
       ELSE /\ results' = [batch_id |-> <<"batch">>, total |-> Len(urls),
                           processed |-> 0, successful |-> 0, failed |-> 0,
                           failures |-> <<>>, success |-> TRUE]
            /\ global_stats' = [global_stats EXCEPT !.remaining = Len(urls)]
            /\ semaphore' = concurrent_limit
            /\ task' = [i \in 1..Len(urls) |-> NewTask]
            /\ bpc' = "gather"
    /\ UNCHANGED <<urls, concurrent_limit, completed, collected, states,
                   requests, FrontEnd, config>>

\* process_url_with_limit without the semaphore, the runs on worker threads
process_url_unlimited(i) ==
    /\ bpc = "gather"
    /\ task[i].pc = "created"
    /\ task' = [task EXCEPT ![i].pc = "p_validate", ![i].calls = @ + 1]
    /\ states' = create(states, Id(i), urls[i])
    /\ UNCHANGED <<urls, concurrent_limit, bpc, results, semaphore, completed,
                   collected, global_stats, requests, FrontEnd, config>>

\* async with semaphore: the coroutine takes a permit and calls process_url,
\* whose first statement registers the ExtractionState entry; without a
\* permit it suspends
process_url_with_limit(i) ==
    /\ bpc = "gather"
    /\ task[i].pc \in {"created", "sem_wait"}
    /\ ~LoopBusy
    /\ IF semaphore > 0
       THEN /\ semaphore' = semaphore - 1
            /\ task' = [task EXCEPT ![i].pc = "p_validate", ![i].calls = @ + 1]
            /\ states' = create(states, Id(i), urls[i])
       ELSE /\ task[i].pc = "created"
            /\ task' = [task EXCEPT ![i].pc = "sem_wait"]
            /\ UNCHANGED <<semaphore, states>>
    /\ UNCHANGED <<urls, concurrent_limit, bpc, results, completed, collected,
                   global_stats, requests, FrontEnd, config>>

\* what the coordinator reads of a result: success, url and error
Delivered(result) == [k \in DOMAIN result \ {"data", "duration_ms"} |-> result[k]]

\* leaving the async with block: the permit goes back, the task is done and
\* as_completed can yield it; the frame of process_url is gone
Release(i) ==
    /\ task[i].pc = "returned"
    /\ semaphore' = semaphore + 1
    /\ task' = [task EXCEPT ![i] = [NewTask EXCEPT !.pc = "done",
                                                   !.calls = task[i].calls,
                                                   !.result = Delivered(task[i].result)]]
    /\ completed' = Append(completed, i)
    /\ UNCHANGED <<urls, concurrent_limit, bpc, results, collected, states,
                   global_stats, requests, FrontEnd, config>>

\* the loop body counting only the successes as processed
CollectResultsSuccessOnly(res, result) ==
    IF result.success
    THEN [res EXCEPT !.processed = @ + 1, !.successful = @ + 1]
    ELSE [res EXCEPT !.failed = @ + 1,
                     !.failures = Append(@,
                        [url |-> DictGet(result, "url", "unknown"),
                         error |-> DictGet(result, "error", "Unknown error")])]

\* the body of the for loop over as_completed, for one finished task
CollectResults(res, result) ==
    IF result.success
    THEN [res EXCEPT !.processed = @ + 1, !.successful = @ + 1]
    ELSE [res EXCEPT !.processed = @ + 1, !.failed = @ + 1,
                     !.failures = Append(@,
                        [url |-> DictGet(result, "url", "unknown"),
                         error |-> DictGet(result, "error", "Unknown error")])]

\* as_completed queues the first step of every task on the loop before the
\* coordinator suspends, so the coordinator wakes up after each task has had
\* its turn
AllStarted == \A j \in DOMAIN task : task[j].pc # "created"

Collect ==
    /\ bpc = "gather"
    /\ ~LoopBusy
    /\ AllStarted
    /\ completed # <<>>
    /\ LET i == Head(completed)
       IN /\ results' = CollectResults(results, task[i].result)
          /\ task' = [task EXCEPT ![i].result = NoResult]
          /\ collected' = Append(collected, [index |-> i, url |-> urls[i],
                                              success |-> task[i].result.success])
    /\ completed' = Tail(completed)
    /\ global_stats' = [global_stats EXCEPT !.remaining = @ - 1]
    /\ UNCHANGED <<urls, concurrent_limit, bpc, semaphore, states, requests,
                   FrontEnd, config>>

\* the success flag left as initialised
FinalSuccessKept(res) == res.success

\* the success flag after the loop
FinalSuccess(res) == IF res.failed > 0 THEN FALSE ELSE res.success

Finalize ==
    /\ bpc = "gather"
    /\ ~LoopBusy
    /\ Len(collected) = Len(urls)
    /\ results' = [results EXCEPT !.success = FinalSuccess(results)]
    /\ bpc' = "returned"
    /\ UNCHANGED <<urls, concurrent_limit, semaphore, task, completed,
                   collected, states, global_stats, requests, FrontEnd, config>>

\* ------------------------------------------------------------ process_url

BatchFrame == <<urls, concurrent_limit, bpc, results, semaphore, completed,
                collected, requests, FrontEnd, config>>

\* update_progress(5) and a validate_url whose answer is not looked at
ValidateUnchecked(i) ==
    /\ task[i].pc = "p_validate"
    /\ states' = Progress(states, Id(i), "p_validate")
    /\ task' = [task EXCEPT ![i].pc = "p_start"]
    /\ UNCHANGED <<BatchFrame, global_stats>>

\* update_progress(5), validate_url and the early return
Validate(i) ==
    /\ task[i].pc = "p_validate"
    /\ states' = Progress(states, Id(i), "p_validate")
    /\ IF ~validate_url(urls[i])
       THEN task' = [task EXCEPT ![i].pc = "returned",
                        ![i].result = [success |-> FALSE,
                                       error |-> "Invalid URL format"]]
       ELSE task' = [task EXCEPT ![i].pc = "p_start"]
    /\ UNCHANGED <<BatchFrame, global_stats>>

\* update_progress(10) and the call of extract_data
StartExtraction(i) ==
    /\ task[i].pc = "p_start"
    /\ states' = Progress(states, Id(i), "p_start")
    /\ task' = [task EXCEPT ![i].pc = "e_fetch"]
    /\ UNCHANGED <<BatchFrame, global_stats>>

\* update_progress(15) and the call of fetch_content
StartFetch(i) ==
    /\ task[i].pc = "e_fetch"
    /\ states' = Progress(states, Id(i), "e_fetch")
    /\ task' = [task EXCEPT ![i].pc = "f_chk_stop", ![i].attempt = 0]
    /\ UNCHANGED <<BatchFrame, global_stats>>

\* ---------------------------------------------------------- fetch_content

\* what requests.get can produce: a response (status, text), a
\* requests.RequestException, or an exception of another class
FetchOutcomes ==
    {[kind |-> "response", status |-> 200, text |-> "<html>"],
     [kind |-> "response", status |-> 200, text |-> ""],
     [kind |-> "response", status |-> 500, text |-> "error"],
     [kind |-> "RequestException", status |-> 0, text |-> ""],
     [kind |-> "Exception", status |-> 0, text |-> ""]}

\* range(max_retries + 1)
MoreAttemptsInclusive(attempt) == attempt <= MAX_RETRIES

\* for attempt in range(max_retries)
MoreAttempts(attempt) == attempt < MAX_RETRIES

\* (2 * attempt) + random.uniform(0, 1)
SleepTimeLinear(attempt, jitter) == 2 * attempt * 1000 + jitter

\* (2 ** attempt) + random.uniform(0, 1), in milliseconds
SleepTime(attempt, jitter) == Pow2(attempt) * 1000 + jitter

\* Python truth value of the fetched content
Falsy(content) == content \in {None, ""}

\* fetch_content returns: its locals go, the caller holds the content
FetchReturn(t, content, how) ==
    [t EXCEPT !.pc = "e_content", !.content = content, !.fetch_end = how,
              !.attempt = 0, !.sleep_time = 0]

\* head of the for loop and the is_stopped check before an attempt
FetchCheckStop(i) ==
    /\ task[i].pc = "f_chk_stop"
    /\ IF ~MoreAttempts(task[i].attempt)
       THEN task' = [task EXCEPT ![i] = FetchReturn(task[i], None, "exhausted")]
       ELSE IF is_stopped(Id(i))
       THEN task' = [task EXCEPT ![i] = FetchReturn(task[i], None, "stopped")]
       ELSE task' = [task EXCEPT ![i].pc = "f_chk_pause"]
    /\ UNCHANGED <<BatchFrame, states, global_stats>>

\* if ExtractionState.is_paused(extraction_id)
FetchCheckPause(i) ==
    /\ task[i].pc = "f_chk_pause"
    /\ IF is_paused(Id(i))
       THEN task' = [task EXCEPT ![i].pc = "f_wait"]
       ELSE task' = [task EXCEPT ![i].pc = "f_get", ![i].waited = "no"]
    /\ UNCHANGED <<BatchFrame, states, global_stats>>

\* a pause loop left at its first evaluation
PauseLoopExitsAlways(id) == TRUE

\* one evaluation of the while condition of the pause loop; the loop body
\* only sleeps
PauseLoopExits(id) == ~(is_paused(id) /\ ~is_stopped(id))

FetchWait(i) ==
    /\ task[i].pc = "f_wait"
    /\ IF PauseLoopExits(Id(i))
       THEN task' = [task EXCEPT ![i].pc = "f_get",
                        ![i].waited = IF is_stopped(Id(i)) THEN "stopped"
                                      ELSE "resumed"]
       ELSE UNCHANGED task
    /\ UNCHANGED <<BatchFrame, states, global_stats>>

\* history of a run that sends a GET for url: it has fetched, it has
\* fetched after a stop that arrived during the GET of fetch_content, and it
\* has asked again for a page it had received
IssueGet(t, url) ==
    [t EXCEPT !.any_get = TRUE, !.get_after_stop = @ \/ t.stop_mid_get,
              !.refetched = @ \/ url \in t.fetched]

\* the URLs that the product links of a site can name
LinkUrls(site) == IF site = Shop THEN ShopUrls ELSE ProductUrls

\* history of a run over site: the pages it has received with status 200,
\* of those that a later product link can name
Received(t, url, site) == [t EXCEPT !.fetched = @ \cup ({url} \cap LinkUrls(site))]

\* requests.get is sent
FetchGet(i) ==
    /\ task[i].pc = "f_get"
    /\ task' = [task EXCEPT ![i] = IssueGet([task[i] EXCEPT
                            !.pc = "f_inflight", !.fetch_gets = @ + 1,
                            !.waited = "no"], urls[i])]
    /\ UNCHANGED <<BatchFrame, states, global_stats>>

\* what the GET of fetch_content can produce for url: the pages of the
\* company site too
Responses(url) ==
    FetchOutcomes \cup
      (IF url = Corp
       THEN {[kind |-> "response", status |-> 200, text |-> page] : page \in CorpPages}
       ELSE {})

\* requests.get returns or raises
FetchResponse(i) ==
    /\ task[i].pc = "f_inflight"
    /\ \E r \in Responses(urls[i]) :
         IF r.kind = "response" /\ r.status = 200
         THEN task' = [task EXCEPT ![i] =
                         [Received(FetchReturn(task[i], r.text, "ok"), urls[i],
                                   urls[i])
                            EXCEPT !.got200 = TRUE]]
         ELSE IF r.kind \in {"response", "RequestException"}
         THEN task' = [task EXCEPT ![i].pc = "f_backoff"]
         ELSE task' = [task EXCEPT ![i] =
                         [FetchReturn(task[i], None, "raised") EXCEPT !.pc = "p_except"]]
    /\ UNCHANGED <<BatchFrame, states, global_stats>>

\* the backoff sleep after a failed attempt, and the step of the for loop
FetchBackoff(i) ==
    /\ task[i].pc = "f_backoff"
    /\ \E j \in Jitter :
         task' = [task EXCEPT ![i].pc = "f_chk_stop",
                              ![i].sleep_time = SleepTime(task[i].attempt, j),
                              ![i].attempt = @ + 1]
    /\ UNCHANGED <<BatchFrame, states, global_stats>>

\* ----------------------------------------------------------- extract_data

\* if not content: return None, and in process_url the failure result
ExtractContent(i) ==
    /\ task[i].pc = "e_content"
    /\ IF Falsy(task[i].content)
       THEN task' = [task EXCEPT ![i].pc = "returned",
                        ![i].result = [success |-> FALSE,
                                       error |-> "Failed to extract data from URL"]]
       ELSE task' = [task EXCEPT ![i].pc = "e_company"]
    /\ UNCHANGED <<BatchFrame, states, global_stats>>

\* CompanyExtractor.extract, by page: the name is the title; the
\* description is the meta description; the type is the first industry of
\* the keyword table whose pattern occurs in the description or, without a
\* description, in the content.  The JSON-LD block of PageLd makes
\* 'name' in structured_data['organization'] raise a TypeError after the
\* title was taken: the except clause logs it and the rest of the method,
\* the type included, is not executed
CompanyExtractor(content) ==
    CASE content = PageTitle ->
           [company_name |-> "Acme", company_description |-> "", company_type |-> ""]
      [] content = PageSoftware ->
           [company_name |-> "Acme", company_description |-> "",
            company_type |-> "Technology"]
      [] content = PageShop ->
           [company_name |-> "Acme", company_description |-> "Tool shop.",
            company_type |-> "Retail"]
      [] content = PageAnonymous ->
           [company_name |-> "", company_description |-> "", company_type |-> "Retail"]
      [] content = PageLd ->
           [company_name |-> "Acme", company_description |-> "", company_type |-> ""]
      [] OTHER -> CompanyEntity

\* update_progress(25) and CompanyExtractor.extract
CompanyStage(i) ==
    /\ task[i].pc = "e_company"
    /\ states' = Progress(states, Id(i), "e_company")
    /\ task' = [task EXCEPT ![i].pc = "e_contact",
                            ![i].stages = Append(@, "company"),
                            ![i].company = CompanyExtractor(task[i].content)]
    /\ UNCHANGED <<BatchFrame, global_stats>>

\* the first link of the content with contact, about-us or get-in-touch
\* in it
contact_page_url == "/contact"

\* update_progress(40) and ContactExtractor.extract, which fetches the
\* contact page when the content links to one
ContactStage(i) ==
    /\ task[i].pc = "e_contact"
    /\ states' = Progress(states, Id(i), "e_contact")
    /\ \E contact_page \in BOOLEAN :
         LET t == [task[i] EXCEPT !.pc = "e_product",
                                  !.stages = Append(@, "contact")]
         IN task' = [task EXCEPT ![i] = IF contact_page
                                         THEN IssueGet(t, contact_page_url)
                                         ELSE t]
    /\ UNCHANGED <<BatchFrame, global_stats>>

\* ------------------------------------------------ ProductExtractor.extract

\* the lists of product links that the pages of a site can show; the
\* catalogue site shows longer ones, and may link its products page
LinkLists(url) ==
    SeqsUpTo(LinkUrls(url), IF url = Shop THEN MaxShopLinks ELSE MaxLinks)

Min(a, b) == IF a < b THEN a ELSE b

\* extract_categories: the texts of the links of the breadcrumb, but Home
extract_categories(content) == IF content = PageShop THEN <<"Tools">> ELSE <<>>

\* ProductEntity() for url as the link loop fills it: the main category is
\* the first of the categories of the page, if it has any
ProductEntity(url, categories) ==
    [product_url |-> url,
     main_category |-> IF categories # <<>> THEN categories[1] ELSE ""]

\* every discovered link is processed
links_to_process_all(product_links) == product_links

\* product_links[:min(len(product_links), self.max_products)]
links_to_process(product_links) ==
    SubSeq(product_links, 1, Min(Len(product_links), max_products))

\* update_progress(60) and ProductExtractor.extract up to the link loop:
\* links of the page, else links of the products page (one more GET), else
\* a product embedded in the page itself, which gets no category
ProductStage(i) ==
    /\ task[i].pc = "e_product"
    /\ states' = Progress(states, Id(i), "e_product")
    /\ \E page_links \in LinkLists(urls[i]), products_page \in BOOLEAN,
          additional_links \in LinkLists(urls[i]), embedded \in BOOLEAN :
         LET follow == page_links = <<>> /\ products_page
             product_links == IF follow THEN additional_links ELSE page_links
             t0 == [task[i] EXCEPT !.stages = Append(@, "product")]
             t1 == IF follow THEN IssueGet(t0, products_page_url) ELSE t0
             \* a products page that shows links was answered with 200
             t == IF follow /\ additional_links # <<>>
                  THEN Received(t1, products_page_url, urls[i]) ELSE t1
         IN IF product_links = <<>>
            THEN task' = [task EXCEPT ![i] =
                     [t EXCEPT !.pc = "e_enrich",
                               !.products = IF embedded
                                            THEN Append(@, ProductEntity(urls[i], <<>>))
                                            ELSE @]]
            ELSE task' = [task EXCEPT ![i] =
                     [t EXCEPT !.pc = "x_chk_stop", !.idx = 0,
                               !.product_links = product_links]]
    /\ UNCHANGED <<BatchFrame, global_stats>>

\* head of the loop over links_to_process and the is_stopped check
ProductCheckStop(i) ==
    /\ task[i].pc = "x_chk_stop"
    /\ IF task[i].idx >= Len(links_to_process(task[i].product_links))
          \/ is_stopped(Id(i))
       THEN task' = [task EXCEPT ![i].pc = "e_enrich"]
       ELSE task' = [task EXCEPT ![i].pc = "x_chk_pause"]
    /\ UNCHANGED <<BatchFrame, states, global_stats>>

ProductCheckPause(i) ==
    /\ task[i].pc = "x_chk_pause"
    /\ IF is_paused(Id(i))
       THEN task' = [task EXCEPT ![i].pc = "x_wait"]
       ELSE task' = [task EXCEPT ![i].pc = "x_get", ![i].waited = "no"]
    /\ UNCHANGED <<BatchFrame, states, global_stats>>

ProductWait(i) ==
    /\ task[i].pc = "x_wait"
    /\ IF PauseLoopExits(Id(i))
       THEN task' = [task EXCEPT ![i].pc = "x_get",
                        ![i].waited = IF is_stopped(Id(i)) THEN "stopped"
                                      ELSE "resumed"]
       ELSE UNCHANGED task
    /\ UNCHANGED <<BatchFrame, states, global_stats>>

\* process_product_page and the rest of the loop body: a link already
\* visited is skipped, otherwise one GET; a page answered with 200 gives
\* product data (extract_product_details returns a non-empty dict) and
\* appends a product
ProductGet(i) ==
    /\ task[i].pc = "x_get"
    /\ LET link == links_to_process(task[i].product_links)[task[i].idx + 1]
       IN IF link \in task[i].visited
          THEN task' = [task EXCEPT ![i].pc = "x_chk_stop", ![i].idx = @ + 1,
                                    ![i].waited = "no"]
          ELSE \E product_data \in BOOLEAN :
                 LET t == IssueGet([task[i] EXCEPT
                            !.pc = "x_chk_stop", !.idx = @ + 1,
                            !.waited = "no",
                            !.visited = @ \cup {link},
                            !.products = IF product_data
                                         THEN Append(@, ProductEntity(link,
                                                extract_categories(task[i].content)))
                                         ELSE @], link)
                 IN task' = [task EXCEPT ![i] =
                               IF product_data THEN Received(t, link, urls[i])
                               ELSE t]
    /\ UNCHANGED <<BatchFrame, states, global_stats>>

\* ---------------------------------------------------------- AiEnricher

\* the company of a run: its url, the fields the stages wrote, its products
Entity(url, company, products) ==
    [url |-> url, company_name |-> company.company_name,
     company_description |-> company.company_description,
     company_type |-> company.company_type, products |-> products]

\* the dicts that json.loads can make of the JSON in the answer of the
\* model; productCategories is a list or, here, a string
EnrichedData ==
    {[refinedCompanyType |-> "Finance"],
     [refinedCompanyType |-> "Other"],
     [productCategories |-> [list |-> <<"Hardware">>]],
     [productCategories |-> [scalar |-> "Hardware"]],
     [productCategories |-> [list |-> <<>>]],
     [refinedCompanyType |-> "Finance", productCategories |-> [list |-> <<"Hardware">>]],
     [refinedCompanyType |-> "Finance", productCategories |-> [list |-> <<>>]]}

\* what the POST to the chat completions endpoint can produce:
\* requests.post or response.json() raises, the body is an error object,
\* the body has no choices, choices[0] has no message, or the content of
\* the message holds a JSON object
AzureReplies ==
    {[kind |-> "transport"], [kind |-> "error"], [kind |-> "no choices"],
     [kind |-> "malformed"]}
    \cup {[kind |-> "enriched", enriched_data |-> e] : e \in EnrichedData}

\* enriched_data["productCategories"][0] of an empty list raises IndexError
EmptyCategories(reply) ==
    /\ reply.kind = "enriched"
    /\ "productCategories" \in DOMAIN reply.enriched_data
    /\ "list" \in DOMAIN reply.enriched_data.productCategories
    /\ reply.enriched_data.productCategories.list = <<>>

\* the call failed: it is logged and counted in api_calls["azure"]["fail"]
AzureFails(reply) ==
    reply.kind \in {"transport", "error", "malformed"} \/ EmptyCategories(reply)

\* the type of the company after lines 109-111
RefinedType(company, enriched_data) ==
    IF /\ "refinedCompanyType" \in DOMAIN enriched_data
       /\ company.company_type \in {"", "Other", "Technology"}
    THEN enriched_data.refinedCompanyType
    ELSE company.company_type

\* an enrichment that takes the returned type whatever the company has
enrich_data_overwriting(company, reply) ==
    IF reply.kind # "enriched" THEN company
    ELSE IF "refinedCompanyType" \in DOMAIN reply.enriched_data
    THEN [company EXCEPT !.company_type = reply.enriched_data.refinedCompanyType]
    ELSE company

\* AiEnricher.enrich_data: the company after the call that got reply
enrich_data(company, reply) ==
    IF reply.kind # "enriched" THEN company
    ELSE LET enriched_data == reply.enriched_data
             typed == [company EXCEPT
                         !.company_type = RefinedType(company, enriched_data)]
         IN IF "productCategories" \notin DOMAIN enriched_data \/ EmptyCategories(reply)
            THEN typed
            ELSE LET categories == enriched_data.productCategories
                     category == IF "list" \in DOMAIN categories
                                 THEN categories.list[1]
                                 ELSE categories.scalar
                 IN [typed EXCEPT !.products =
                       [k \in DOMAIN typed.products |->
                          IF typed.products[k].main_category = ""
                          THEN [typed.products[k] EXCEPT !.main_category = category]
                          ELSE typed.products[k]]]

\* len() of the descriptions that occur
StrLen(str) ==
    CASE str = "" -> 0
      [] str = "Acme." -> 5
      [] str = "Tool shop." -> 10
      [] str = "Acme Corporation makes tools." -> 29

\* the first element of itemListElement: its result may carry a
\* description and a detailedDescription, which is an object with an
\* articleBody or null
Items ==
    {[description |-> "Manufacturer"],
     [detailedDescription |-> [articleBody |-> "Acme."]],
     [description |-> "Manufacturer",
      detailedDescription |-> [articleBody |-> "Acme Corporation makes tools."]],
     [description |-> "Manufacturer", detailedDescription |-> [null |-> TRUE]]}

\* what the GET of the entity search can produce: requests.get or
\* response.json() raises, the list is empty, or it has an item
KnowledgeGraphReplies ==
    {[kind |-> "transport"], [kind |-> "no items"]}
    \cup {[kind |-> "item", item |-> item] : item \in Items}

\* "articleBody" in item["detailedDescription"] of null raises TypeError
NullDescription(reply) ==
    /\ reply.kind = "item"
    /\ "detailedDescription" \in DOMAIN reply.item
    /\ "null" \in DOMAIN reply.item.detailedDescription

\* the call failed: it is logged and counted in
\* api_calls["knowledge_graph"]["fail"]
KnowledgeGraphFails(reply) == reply.kind = "transport" \/ NullDescription(reply)

\* AiEnricher.query_knowledge_graph: the company after the call that got
\* reply
query_knowledge_graph(company, reply) ==
    IF reply.kind # "item" THEN company
    ELSE LET item == reply.item
             typed == IF /\ "description" \in DOMAIN item
                         /\ company.company_type \in {"", "Other"}
                      THEN [company EXCEPT !.company_type = item.description]
                      ELSE company
         IN IF "detailedDescription" \notin DOMAIN item \/ NullDescription(reply)
            THEN typed
            ELSE LET new_description == item.detailedDescription.articleBody
                 IN IF \/ typed.company_description = ""
                       \/ StrLen(new_description) > StrLen(typed.company_description)
                    THEN [typed EXCEPT !.company_description = new_description]
                    ELSE typed

\* api_calls after a call of service: a failure and a merge are counted, a
\* reply with nothing to merge is not
ApiCounted(stats, service, reply, failed) ==
    IF reply.kind = "not called" THEN stats
    ELSE IF failed THEN [stats EXCEPT !.api_calls[service].fail = @ + 1]
    ELSE IF reply.kind \in {"enriched", "item"}
    THEN [stats EXCEPT !.api_calls[service].success = @ + 1]
    ELSE stats

\* update_progress(80) and the two enrichment calls: enrich_data if the
\* Azure key is configured, then query_knowledge_graph if its key is
\* configured and the company has a name
EnrichStage(i) ==
    /\ task[i].pc = "e_enrich"
    /\ states' = Progress(states, Id(i), "e_enrich")
    /\ \E azure \in (IF config.azure THEN AzureReplies ELSE {NotCalled}),
          knowledge_graph \in
            (IF config.knowledge_graph /\ task[i].company.company_name # ""
             THEN KnowledgeGraphReplies ELSE {NotCalled}) :
         LET company == Entity(urls[i], task[i].company, task[i].products)
             enriched == enrich_data(company, azure)
             refined == query_knowledge_graph(enriched, knowledge_graph)
         IN /\ task' = [task EXCEPT
                  ![i].pc = "p_finalize",
                  ![i].stages = Append(@, "enrich"),
                  ![i].company = [f \in DOMAIN CompanyEntity |-> refined[f]],
                  ![i].products = refined.products,
                  ![i].extracted = company,
                  ![i].enriched = enriched,
                  ![i].azure = azure,
                  ![i].knowledge_graph = knowledge_graph]
            /\ global_stats' =
                 ApiCounted(ApiCounted(global_stats, "azure", azure, AzureFails(azure)),
                            "knowledge_graph", knowledge_graph,
                            KnowledgeGraphFails(knowledge_graph))
    /\ UNCHANGED BatchFrame

\* -------------------------------------------------- the ends of process_url

\* update_progress(100) and the left half of global_stats.processed += 1:
\* the attribute is read, the sum is stored by a later instruction
Complete(i) ==
    /\ task[i].pc = "p_finalize"
    /\ states' = Progress(states, Id(i), "p_finalize")
    /\ task' = [task EXCEPT ![i].pc = "g_processed",
                            ![i].loaded = global_stats.processed]
    /\ UNCHANGED <<BatchFrame, global_stats>>

\* global_stats.processed is stored, global_stats.success is read
StoreProcessed(i) ==
    /\ task[i].pc = "g_processed"
    /\ global_stats' = [global_stats EXCEPT !.processed = task[i].loaded + 1]
    /\ task' = [task EXCEPT ![i].pc = "g_success",
                            ![i].loaded = global_stats.success]
    /\ UNCHANGED <<BatchFrame, states>>

\* CompanyEntity.to_dict: the fields of the company and, flattened into
\* the same dict, those of its primary product, the first of the list
to_dict(company) ==
    [url |-> company.url,
     company_name |-> company.company_name,
     company_description |-> company.company_description,
     company_type |-> company.company_type,
     product_url |-> IF company.products # <<>>
                     THEN company.products[1].product_url
                     ELSE "",
     product_category |-> IF company.products # <<>>
                          THEN company.products[1].main_category
                          ELSE ""]

\* global_stats.success is stored and the success result returned
StoreSuccess(i) ==
    /\ task[i].pc = "g_success"
    /\ global_stats' = [global_stats EXCEPT !.success = task[i].loaded + 1]
    /\ task' = [task EXCEPT ![i].pc = "returned", ![i].loaded = 0,
                  ![i].result = [success |-> TRUE,
                                 data |-> to_dict(Entity(urls[i], task[i].company,
                                                         task[i].products))]]
    /\ UNCHANGED <<BatchFrame, states>>

\* except Exception
ProcessingError(i) ==
    /\ task[i].pc = "p_except"
    /\ global_stats' = [global_stats EXCEPT !.fail = @ + 1]
    /\ task' = [task EXCEPT ![i].pc = "returned",
                  ![i].result = [success |-> FALSE,
                                 error |-> "Error processing URL"]]
    /\ UNCHANGED <<BatchFrame, states>>

\* ------------------------------------- control requests of other threads

\* a request handler of another thread runs while the batch is running
Request ==
    /\ requests > 0
    /\ requests' = requests - 1

ControlFrame == <<urls, concurrent_limit, bpc, results, semaphore, completed,
                  collected, global_stats, FrontEnd, config>>

Pause(id) ==
    /\ Request
    /\ states' = pause(states, id)
    /\ UNCHANGED <<ControlFrame, task>>

Resume(id) ==
    /\ Request
    /\ states' = resume(states, id)
    /\ UNCHANGED <<ControlFrame, task>>

\* stop; the history notes a stop that arrives while the GET of
\* fetch_content is in flight
Stop(id) ==
    /\ Request
    /\ states' = stop(states, id)
    /\ task' = [i \in DOMAIN task |->
                  IF Id(i) = id /\ task[i].pc = "f_inflight" /\ ~task[i].stop_mid_get
                  THEN [task[i] EXCEPT !.stop_mid_get = TRUE]
                  ELSE task[i]]
    /\ UNCHANGED ControlFrame

Next ==
    \/ BatchStart
    \/ Collect
    \/ Finalize
    \/ \E i \in DOMAIN task : process_url_with_limit(i)
    \/ \E i \in DOMAIN task : Validate(i)
    \/ \E i \in DOMAIN task : StartExtraction(i)
    \/ \E i \in DOMAIN task : StartFetch(i)
    \/ \E i \in DOMAIN task : FetchCheckStop(i)
    \/ \E i \in DOMAIN task : FetchCheckPause(i)
    \/ \E i \in DOMAIN task : FetchWait(i)
    \/ \E i \in DOMAIN task : FetchGet(i)
    \/ \E i \in DOMAIN task : FetchResponse(i)
    \/ \E i \in DOMAIN task : FetchBackoff(i)
    \/ \E i \in DOMAIN task : ExtractContent(i)
    \/ \E i \in DOMAIN task : CompanyStage(i)
    \/ \E i \in DOMAIN task : ContactStage(i)
    \/ \E i \in DOMAIN task : ProductStage(i)
    \/ \E i \in DOMAIN task : ProductCheckStop(i)
    \/ \E i \in DOMAIN task : ProductCheckPause(i)
    \/ \E i \in DOMAIN task : ProductWait(i)
    \/ \E i \in DOMAIN task : ProductGet(i)
    \/ \E i \in DOMAIN task : EnrichStage(i)
    \/ \E i \in DOMAIN task : Complete(i)
    \/ \E i \in DOMAIN task : StoreProcessed(i)
    \/ \E i \in DOMAIN task : StoreSuccess(i)
    \/ \E i \in DOMAIN task : ProcessingError(i)
    \/ \E i \in DOMAIN task : Release(i)
    \/ \E id \in DOMAIN states : Pause(id)
    \/ \E id \in DOMAIN states : Resume(id)
    \/ \E id \in DOMAIN states : Stop(id)

Spec == Init /\ [][Next]_vars

\* a batch of one URL, the run under the control requests of a user
InitRun ==
    /\ urls \in {<<u>> : u \in Urls}
    /\ concurrent_limit \in 1..MaxCap
    /\ requests = MaxRequests
    /\ Fresh

SpecRun == InitRun /\ [][Next]_vars

\* one run over the catalogue site; one control request may arrive
InitCrawl ==
    /\ urls = <<Shop>>
    /\ concurrent_limit = 1
    /\ requests = 1
    /\ Fresh

SpecCrawl == InitCrawl /\ [][Next]_vars

\* the thread of a run is scheduled again and again: a pause loop whose
\* condition has become false, and stays false, is left after one of its
\* sleeps of half a second
FairRun ==
    /\ SpecRun
    /\ WF_vars(\E i \in DOMAIN task : FetchWait(i))
    /\ WF_vars(\E i \in DOMAIN task : ProductWait(i))

\* a batch as the CLI (-c, type=int) or the form of /batch (int(...)) hands
\* it over: the URL list is not empty, the cap is any number from 0
InitAnyCap ==
    /\ urls \in SeqsUpTo(Urls, MaxUrls) \ {<<>>}
    /\ concurrent_limit \in 0..MaxCap
    /\ requests = 1
    /\ Fresh

\* the event loop runs every coroutine that is ready and the thread of the
\* loop is scheduled: a step of the batch that stays possible is taken
FairBatch == InitAnyCap /\ [][Next]_vars /\ WF_vars(Next)

\* ------------------------------------------------------ the web front end

\* values of the url field of the form of /extract
Forms == {"a.com", "https://a.com"}

\* if not url.startswith(('http://', 'https://')): url = 'https://' + url
WithScheme(url) == IF url = "a.com" THEN "https://a.com" ELSE url

\* f"web-{int(time.time())}"
WebExtractionId(seconds) == <<"web", seconds>>

\* a second of wall-clock time passes; the clock is read by the handler of
\* /extract only, so the seconds after the last form are not counted
Tick ==
    /\ clock < MaxClock
    /\ Len(web) < MaxPosts
    /\ clock' = clock + 1
    /\ UNCHANGED <<urls, concurrent_limit, bpc, results, semaphore, task,
                   completed, collected, states, global_stats, requests, web,
                   batches, config>>

\* POST /extract: the handler makes the id from the clock and hands the
\* coroutine process_url(url, extraction_id) to a new thread with its own
\* event loop
extract(form_url) ==
    /\ bpc = "idle"
    /\ Len(web) < MaxPosts
    /\ web' = Append(web, WebExtractionId(clock))
    /\ urls' = Append(urls, WithScheme(form_url))
    /\ task' = Append(task, NewTask)
    /\ UNCHANGED <<concurrent_limit, bpc, results, semaphore, completed,
                   collected, states, global_stats, requests, clock, batches,
                   config>>

\* the thread runs the coroutine up to its first statement,
\* ExtractionState(extraction_id, url)
process_url(i) ==
    /\ i \in DOMAIN web
    /\ task[i].pc = "created"
    /\ task' = [task EXCEPT ![i].pc = "p_validate", ![i].calls = @ + 1]
    /\ states' = create(states, Id(i), urls[i])
    /\ UNCHANGED <<BatchFrame, global_stats>>

\* the server is up and no form was posted yet
InitWeb ==
    /\ urls = <<>>
    /\ concurrent_limit = 1
    /\ bpc = "idle"
    /\ results = NoResult
    /\ semaphore = 0
    /\ task = <<>>
    /\ completed = <<>>
    /\ collected = <<>>
    /\ states = <<>>
    /\ global_stats = GlobalStats
    /\ requests = 0
    /\ clock = 0
    /\ web = <<>>
    /\ batches = <<>>
    /\ config = NoKeys

\* the threads of the runs take their steps in any order; no control
\* request is sent, so that no run enters a pause loop
NextWeb ==
    \/ Tick
    \/ \E form_url \in Forms : extract(form_url)
    \/ \E i \in DOMAIN task : process_url(i)
    \/ \E i \in DOMAIN task : Validate(i)
    \/ \E i \in DOMAIN task : StartExtraction(i)
    \/ \E i \in DOMAIN task : StartFetch(i)
    \/ \E i \in DOMAIN task : FetchCheckStop(i)
    \/ \E i \in DOMAIN task : FetchCheckPause(i)
    \/ \E i \in DOMAIN task : FetchGet(i)
    \/ \E i \in DOMAIN task : FetchResponse(i)
    \/ \E i \in DOMAIN task : FetchBackoff(i)
    \/ \E i \in DOMAIN task : ExtractContent(i)
    \/ \E i \in DOMAIN task : CompanyStage(i)
    \/ \E i \in DOMAIN task : ContactStage(i)
    \/ \E i \in DOMAIN task : ProductStage(i)
    \/ \E i \in DOMAIN task : ProductCheckStop(i)
    \/ \E i \in DOMAIN task : ProductCheckPause(i)
    \/ \E i \in DOMAIN task : ProductGet(i)
    \/ \E i \in DOMAIN task : EnrichStage(i)
    \/ \E i \in DOMAIN task : Complete(i)
    \/ \E i \in DOMAIN task : StoreProcessed(i)
    \/ \E i \in DOMAIN task : StoreSuccess(i)
    \/ \E i \in DOMAIN task : ProcessingError(i)

SpecWeb == InitWeb /\ [][NextWeb]_vars

\* the server is up, no form was posted yet, and the user will send one
\* stop request
InitStop ==
    /\ urls = <<>>
    /\ concurrent_limit = 1
    /\ bpc = "idle"
    /\ results = NoResult
    /\ semaphore = 0
    /\ task = <<>>
    /\ completed = <<>>
    /\ collected = <<>>
    /\ states = <<>>
    /\ global_stats = GlobalStats
    /\ requests = 1
    /\ clock = 0
    /\ web = <<>>
    /\ batches = <<>>
    /\ config = NoKeys

\* one form is posted; the page the handler redirects to shows the id, and
\* the handler of /api/stop-extraction/<extraction_id> runs on a thread of
\* the server at any moment after that, between any two steps of the run
NextStop ==
    \/ \E form_url \in Forms : web = <<>> /\ extract(form_url)
    \/ \E i \in DOMAIN web : Stop(web[i])
    \/ \E i \in DOMAIN task : process_url(i)
    \/ \E i \in DOMAIN task : Validate(i)
    \/ \E i \in DOMAIN task : StartExtraction(i)
    \/ \E i \in DOMAIN task : StartFetch(i)
    \/ \E i \in DOMAIN task : FetchCheckStop(i)
    \/ \E i \in DOMAIN task : FetchCheckPause(i)
    \/ \E i \in DOMAIN task : FetchGet(i)
    \/ \E i \in DOMAIN task : FetchResponse(i)
    \/ \E i \in DOMAIN task : FetchBackoff(i)
    \/ \E i \in DOMAIN task : ExtractContent(i)
    \/ \E i \in DOMAIN task : CompanyStage(i)
    \/ \E i \in DOMAIN task : ContactStage(i)
    \/ \E i \in DOMAIN task : ProductStage(i)
    \/ \E i \in DOMAIN task : ProductCheckStop(i)
    \/ \E i \in DOMAIN task : ProductCheckPause(i)
    \/ \E i \in DOMAIN task : ProductGet(i)
    \/ \E i \in DOMAIN task : EnrichStage(i)
    \/ \E i \in DOMAIN task : Complete(i)
    \/ \E i \in DOMAIN task : StoreProcessed(i)
    \/ \E i \in DOMAIN task : StoreSuccess(i)
    \/ \E i \in DOMAIN task : ProcessingError(i)

SpecStop == InitStop /\ [][NextStop]_vars

\* --------------------------------------------- a run with the enrichment

\* the configurations: each of the two keys is set or empty
Configurations == [azure : BOOLEAN, knowledge_graph : BOOLEAN]

\* the server is up with one of the configurations, no form was posted yet
InitEnrich ==
    /\ urls = <<>>
    /\ concurrent_limit = 1
    /\ bpc = "idle"
    /\ results = NoResult
    /\ semaphore = 0
    /\ task = <<>>
    /\ completed = <<>>
    /\ collected = <<>>
    /\ states = <<>>
    /\ global_stats = GlobalStats
    /\ requests = 0
    /\ clock = 0
    /\ web = <<>>
    /\ batches = <<>>
    /\ config \in Configurations

\* one form, with the URL of the company site, is posted; its run is not
\* paused or stopped
NextEnrich ==
    \/ web = <<>> /\ extract(Corp)
    \/ \E i \in DOMAIN task : process_url(i)
    \/ \E i \in DOMAIN task : Validate(i)
    \/ \E i \in DOMAIN task : StartExtraction(i)
    \/ \E i \in DOMAIN task : StartFetch(i)
    \/ \E i \in DOMAIN task : FetchCheckStop(i)
    \/ \E i \in DOMAIN task : FetchCheckPause(i)
    \/ \E i \in DOMAIN task : FetchGet(i)
    \/ \E i \in DOMAIN task : FetchResponse(i)
    \/ \E i \in DOMAIN task : FetchBackoff(i)
    \/ \E i \in DOMAIN task : ExtractContent(i)
    \/ \E i \in DOMAIN task : CompanyStage(i)
    \/ \E i \in DOMAIN task : ContactStage(i)
    \/ \E i \in DOMAIN task : ProductStage(i)
    \/ \E i \in DOMAIN task : ProductCheckStop(i)
    \/ \E i \in DOMAIN task : ProductCheckPause(i)
    \/ \E i \in DOMAIN task : ProductGet(i)
    \/ \E i \in DOMAIN task : EnrichStage(i)
    \/ \E i \in DOMAIN task : Complete(i)
    \/ \E i \in DOMAIN task : StoreProcessed(i)
    \/ \E i \in DOMAIN task : StoreSuccess(i)
    \/ \E i \in DOMAIN task : ProcessingError(i)

SpecEnrich == InitEnrich /\ [][NextEnrich]_vars

\* ------------------------------------------------ batches of the front end

\* the URL lists read from the files uploaded to /batch: every line has a
\* scheme, a file without lines is refused
BatchFiles == SeqsUpTo({"https://a.com", "https://not a url"}, MaxUrls) \ {<<>>}

\* a thread that is to run process_batch_urls(urls, concurrency)
NewBatch(file_urls) ==
    [pc |-> "call", urls |-> file_urls, results |-> NoResult, index |-> 0,
     loaded |-> 0]

\* POST /batch: the handler reads the file and hands the coroutine
\* process_batch_urls(urls, concurrency) to a new thread with its own
\* event loop
batch(file_urls) ==
    /\ bpc = "idle"
    /\ Len(batches) < MaxPosts
    /\ batches' = Append(batches, NewBatch(file_urls))
    /\ UNCHANGED <<urls, concurrent_limit, bpc, results, semaphore, task,
                   completed, collected, states, global_stats, requests, clock,
                   web, config>>

\* the thread runs process_batch_urls up to the creation of the tasks
process_batch_urls(b) ==
    /\ batches[b].pc = "call"
    /\ batches' = [batches EXCEPT
                     ![b].pc = "gather",
                     ![b].results = [batch_id |-> <<"batch">>,
                                     total |-> Len(batches[b].urls),
                                     processed |-> 0, successful |-> 0,
                                     failed |-> 0, failures |-> <<>>,
                                     success |-> TRUE]]
    /\ global_stats' = [global_stats EXCEPT !.remaining = Len(batches[b].urls)]
    /\ UNCHANGED <<urls, concurrent_limit, bpc, results, semaphore, task,
                   completed, collected, states, requests, clock, web, config>>

\* the ways a run of process_url over url ends, each with the last
\* checkpoint it writes and the result it returns
RunEnds(url) ==
    IF ~validate_url(url)
    THEN {[site |-> "p_validate", raised |-> FALSE,
           result |-> [success |-> FALSE, error |-> "Invalid URL format"]]}
    ELSE {[site |-> "e_fetch", raised |-> FALSE,
           result |-> [success |-> FALSE,
                       error |-> "Failed to extract data from URL"]],
          [site |-> "e_fetch", raised |-> TRUE,
           result |-> [success |-> FALSE, error |-> "Error processing URL"]],
          [site |-> "p_finalize", raised |-> FALSE,
           result |-> [success |-> TRUE]]}

\* the counters after a run that ended with e
Counted(stats, e) ==
    IF e.result.success
    THEN [stats EXCEPT !.processed = @ + 1, !.success = @ + 1]
    ELSE IF e.raised THEN [stats EXCEPT !.fail = @ + 1]
    ELSE stats

\* the next task of the batch runs process_url from its first statement to
\* its return (the loop of the thread runs the tasks one after the other, a
\* cap of at least 1 given), as_completed yields it and the loop body counts
\* the result; of global_stats.remaining -= 1 the attribute is read, the
\* difference is stored by a later instruction
as_completed(b) ==
    /\ batches[b].pc = "gather"
    /\ batches[b].index < Len(batches[b].urls)
    /\ LET url == batches[b].urls[batches[b].index + 1]
           id == BatchExtractionId(batches[b].index + 1)
       IN \E e \in RunEnds(url) :
            /\ states' = Progress(create(states, id, url), id, e.site)
            /\ global_stats' = Counted(global_stats, e)
            /\ batches' = [batches EXCEPT
                             ![b].pc = "g_remaining",
                             ![b].index = @ + 1,
                             ![b].results = CollectResults(@, e.result),
                             ![b].loaded = global_stats.remaining]
    /\ UNCHANGED <<urls, concurrent_limit, bpc, results, semaphore, task,
                   completed, collected, requests, clock, web, config>>

\* global_stats.remaining is stored
StoreRemaining(b) ==
    /\ batches[b].pc = "g_remaining"
    /\ global_stats' = [global_stats EXCEPT !.remaining = batches[b].loaded - 1]
    /\ batches' = [batches EXCEPT ![b].pc = "gather", ![b].loaded = 0]
    /\ UNCHANGED <<urls, concurrent_limit, bpc, results, semaphore, task,
                   completed, collected, states, requests, clock, web, config>>

\* after the loop: the success flag, and the return
BatchReturn(b) ==
    /\ batches[b].pc = "gather"
    /\ batches[b].index = Len(batches[b].urls)
    /\ batches' = [batches EXCEPT ![b].pc = "returned",
                                  ![b].results.success = FinalSuccess(batches[b].results)]
    /\ UNCHANGED <<urls, concurrent_limit, bpc, results, semaphore, task,
                   completed, collected, states, global_stats, requests, clock,
                   web, config>>

\* the server is up and no file was uploaded yet
InitBatches ==
    /\ urls = <<>>
    /\ concurrent_limit = 1
    /\ bpc = "idle"
    /\ results = NoResult
    /\ semaphore = 0
    /\ task = <<>>
    /\ completed = <<>>
    /\ collected = <<>>
    /\ states = <<>>
    /\ global_stats = GlobalStats
    /\ requests = 0
    /\ clock = 0
    /\ web = <<>>
    /\ batches = <<>>
    /\ config = NoKeys

\* the threads of the batches take their steps in any order
NextBatches ==
    \/ \E file_urls \in BatchFiles : batch(file_urls)
    \/ \E b \in DOMAIN batches : process_batch_urls(b)
    \/ \E b \in DOMAIN batches : as_completed(b)
    \/ \E b \in DOMAIN batches : StoreRemaining(b)
    \/ \E b \in DOMAIN batches : BatchReturn(b)

SpecBatches == InitBatches /\ [][NextBatches]_vars

\* ------------------------------------- the registry under its operations

\* the call sites of update_progress
ProgressSites == {"p_validate", "p_start", "e_fetch", "e_company", "e_contact",
                  "e_product", "e_enrich", "p_finalize"}

\* the ids the front end can make
RegistryIds == {WebExtractionId(seconds) : seconds \in 0..MaxClock}

\* ExtractionState(extraction_id, url), the first statement of a run
Create(id, url) ==
    /\ states' = create(states, id, url)
    /\ UNCHANGED <<ControlFrame, task, requests>>

\* extraction_state.update_progress of one of the call sites of a run
UpdateProgress(id, site) ==
    /\ states' = Progress(states, id, site)
    /\ UNCHANGED <<ControlFrame, task, requests>>

\* the registry is empty; the operations arrive in any order
InitRegistry ==
    /\ urls = <<>>
    /\ concurrent_limit = 1
    /\ bpc = "idle"
    /\ results = NoResult
    /\ semaphore = 0
    /\ task = <<>>
    /\ completed = <<>>
    /\ collected = <<>>
    /\ states = <<>>
    /\ global_stats = GlobalStats
    /\ requests = MaxRequests
    /\ clock = 0
    /\ web = <<>>
    /\ batches = <<>>
    /\ config = NoKeys

NextRegistry ==
    \/ \E id \in RegistryIds : Create(id, "https://a.com")
    \/ \E id \in RegistryIds, site \in ProgressSites : UpdateProgress(id, site)
    \/ \E id \in RegistryIds : Pause(id)
    \/ \E id \in RegistryIds : Resume(id)
    \/ \E id \in RegistryIds : Stop(id)

SpecRegistry == InitRegistry /\ [][NextRegistry]_vars

\* ================================================================ claims

Runs == DOMAIN task

\* C1: during process_batch_urls with cap >= 1 the number of process_url
\* runs in flight (started and not yet returned) is at most the cap, in
\* every reachable state
C1_InFlightWithinCap ==
    Cardinality({i \in Runs : InFlight(i)}) <= concurrent_limit

\* a run in flight at cap 1 while another URL of the batch still waits
C1_Witness ==
    /\ concurrent_limit = 1
    /\ \E i, j \in Runs : InFlight(i) /\ task[i].pc = "f_inflight"
                          /\ task[j].pc = "created"

\* C2: a stop that arrives while the GET of fetch_content is in flight makes
\* process_url return success=false, with no further GET and none of the
\* company, contact, product and enrichment stages, whatever the GET returns
C2_StopMidFetchCancels ==
    \A i \in Runs :
        task[i].stop_mid_get =>
            /\ ~task[i].get_after_stop
            /\ task[i].stages = <<>>
            /\ task[i].pc = "returned" => ~task[i].result.success

\* a GET is sent by run i in this step, at a checkpoint of the pause loop
GetSent(i) ==
    \/ task[i].pc = "f_get" /\ task'[i].pc = "f_inflight"
    \/ task[i].pc = "x_get" /\ task'[i].visited # task[i].visited

\* C3: in fetch_content and in the product-link loop no GET is sent for a
\* run whose stopped flag was set when its pause wait ended
C3_NoGetAfterStoppedWait ==
    [][\A i \in Runs : (i \in DOMAIN task' /\ GetSent(i))
                            => task[i].waited # "stopped"]_vars

\* C4: when process_batch_urls returns for a non-empty list, every URL went
\* through process_url exactly once, processed = total = len(urls) and
\* successful + failed = processed
C4_BatchCountsAll ==
    (bpc = "returned" /\ urls # <<>>) =>
        /\ \A i \in Runs : task[i].calls = 1
        /\ Runs = 1..Len(urls)
        /\ results.total = Len(urls)
        /\ results.processed = results.total
        /\ results.successful + results.failed = results.processed

\* a returned batch of two URLs, one succeeded and one failed
C4_Witness ==
    /\ bpc = "returned"
    /\ Len(urls) = 2
    /\ results.successful = 1
    /\ results.failed = 1

IsFailure(c) == ~c.success

\* C5: the failures list of the batch result has exactly one entry per
\* failed URL, and each entry names the URL that failed
C5_FailuresNameUrls ==
    (bpc = "returned" /\ urls # <<>>) =>
        LET failed == SelectSeq(collected, IsFailure)
        IN /\ Len(results.failures) = Len(failed)
           /\ \A k \in 1..Len(failed) : results.failures[k].url = failed[k].url

\* C6: the success flag of the batch result is true only if at least one
\* URL succeeded
C6_SuccessOnlyIfSucceeded ==
    (bpc = "returned" /\ results.success) =>
        (urls # <<>> /\ results.successful >= 1)

\* a returned batch with the success flag set
C6_Witness ==
    /\ bpc = "returned"
    /\ results.success
    /\ Len(urls) = 2

\* C7: fetch_content never sends more than MAX_RETRIES GETs; it gives up
\* early only for a stopped run, and when every attempt failed it has sent
\* exactly MAX_RETRIES GETs and process_url reports failure
C7_ExactlyMaxRetries ==
    \A i \in Runs :
        /\ task[i].fetch_gets <= MAX_RETRIES
        /\ task[i].fetch_end = "stopped" => is_stopped(Id(i))
        /\ task[i].fetch_end = "exhausted" =>
              /\ task[i].fetch_gets = MAX_RETRIES
              /\ task[i].pc = "returned" => ~task[i].result.success

\* every attempt failed in a run that no control request touched
C7_Witness ==
    \E i \in Runs :
        /\ task[i].fetch_end = "exhausted"
        /\ task[i].pc = "returned"
        /\ requests = MaxRequests

\* C8 as stated: the backoff slept immediately before attempt n is at
\* least 2^n seconds
C8_DelayBeforeAttempt ==
    \A i \in Runs :
        task[i].pc = "f_inflight" =>
            task[i].sleep_time >= Pow2(task[i].attempt) * 1000

\* C8 as amended: the backoff slept after failed attempt n is at least 2^n
\* seconds and less than 2^n + 1; nothing is slept before attempt 0, and
\* what precedes attempt n >= 1 is the sleep of attempt n - 1
C8_DelayAfterAttempt ==
    \A i \in Runs :
        IF task[i].attempt = 0
        THEN task[i].sleep_time = 0
        ELSE /\ task[i].sleep_time >= Pow2(task[i].attempt - 1) * 1000
             /\ task[i].sleep_time < Pow2(task[i].attempt - 1) * 1000 + 1000

\* the last attempt failed and its backoff was slept
C8_Witness ==
    \E i \in Runs :
        /\ task[i].pc = "f_chk_stop"
        /\ task[i].attempt = MAX_RETRIES
        /\ task[i].sleep_time >= Pow2(MAX_RETRIES - 1) * 1000

FetchSites == {"f_chk_stop", "f_chk_pause", "f_wait", "f_get", "f_inflight",
               "f_backoff"}

\* C9: an attempt answered with status 200 ends fetch_content at once,
\* whatever the body, and process_url reports success
C9_Status200Succeeds ==
    \A i \in Runs :
        task[i].got200 =>
            /\ task[i].pc \notin FetchSites
            /\ task[i].pc = "returned" => task[i].result.success

Checkpoints == <<0, 5, 10, 15, 25, 40, 60, 80, 100>>

NextCheckpoint(p) ==
    IF \E k \in 1..(Len(Checkpoints) - 1) : Checkpoints[k] = p
    THEN Checkpoints[(CHOOSE k \in 1..(Len(Checkpoints) - 1) : Checkpoints[k] = p) + 1]
    ELSE -1

\* C10: the progress of a run's entry stays within 0..100, never decreases,
\* and moves from one checkpoint of 0, 5, 10, 15, 25, 40, 60, 80, 100 to the
\* next, under any interleaving with pause, resume and stop
C10_ProgressMonotone ==
    [][\A id \in DOMAIN states' :
          LET old == IF id \in DOMAIN states THEN states[id].progress ELSE 0
              new == states'[id].progress
          IN /\ new \in 0..100
             /\ new >= old
             /\ new # old => new = NextCheckpoint(old)]_vars

\* a run that completed after every control request had been sent, the
\* last of them a stop
C10_Witness ==
    \E id \in DOMAIN states :
        /\ states[id].progress = 100
        /\ states[id].stopped
        /\ requests = 0

\* C11: once stop(id) has set the stopped flag of a registered id, the flag
\* stays set for as long as the entry exists, under create, update_progress,
\* pause, resume and stop
C11_StopIsTerminal ==
    [][\A id \in DOMAIN states \cap DOMAIN states' :
          states[id].stopped => states'[id].stopped]_vars

\* C12: the runs in flight at the same time have pairwise distinct
\* extraction ids, so each entry has one writer of progress and stage
C12_OneWriterPerEntry ==
    \A i, j \in Runs : (i # j /\ InFlight(i) /\ InFlight(j)) => Id(i) # Id(j)

\* C13: for a URL that validate_url rejects, process_url returns
\* success=false with the validation error, and the run sends no GET and
\* executes no extraction stage
C13_RejectedUrlNotFetched ==
    \A i \in Runs :
        ~validate_url(urls[i]) =>
            /\ ~task[i].any_get
            /\ task[i].stages = <<>>
            /\ task[i].pc = "returned" =>
                  /\ ~task[i].result.success
                  /\ task[i].result.error = "Invalid URL format"

\* the run of a rejected URL has returned
C13_Witness ==
    \E i \in Runs : ~validate_url(urls[i]) /\ task[i].pc = "returned"

\* the kinds of fatal error of a run
ErrorKinds == {"ValidationError", "FetchError", "ProcessingError"}

\* C14: every fatal outcome (malformed URL, fetch exhausted, uncaught
\* exception) makes process_url return a result, and the failure result
\* identifies the URL, the kind of error and a message
C14_FailureIsStructured ==
    \A i \in Runs :
        task[i].pc = "returned" =>
            LET result == task[i].result
            IN /\ "success" \in DOMAIN result
               /\ ~result.success =>
                     /\ "error" \in DOMAIN result
                     /\ \E k \in DOMAIN result \ {"success"} :
                           result[k] = urls[i]
                     /\ \E k \in DOMAIN result \ {"success"} :
                           result[k] \in ErrorKinds

\* the product records that a returned dict carries
ProductsIn(data) ==
    IF data.product_url = "" THEN <<>>
    ELSE <<[product_url |-> data.product_url,
            main_category |-> data.product_category]>>

\* C15: on success the record that process_url returns carries every
\* product the product stage appended to the company, in append order
C15_ResultCarriesProducts ==
    \A i \in Runs :
        (task[i].pc = "returned" /\ task[i].result.success) =>
            ProductsIn(task[i].result.data) = task[i].products

Distinct(seq) == \A a, b \in DOMAIN seq : a # b => seq[a] # seq[b]

Max(a, b) == IF a > b THEN a ELSE b

\* the product stage of the run is over
AfterProductStage ==
    {"e_enrich", "p_finalize", "g_processed", "g_success", "returned"}

\* the first min(n, max_products) links, a record each, in list order
\* (the pages of the catalogue site show no breadcrumb)
FirstLinks(product_links) ==
    [k \in 1..Min(Len(product_links), max_products) |->
        ProductEntity(product_links[k], <<>>)]

\* every product page that run i asked for was answered with 200: each
\* visited link has its record
AllAnswered(i) ==
    \A link \in task[i].visited :
        \E k \in DOMAIN task[i].products : task[i].products[k].product_url = link

\* the product stage of run i ended, over distinct links whose pages all
\* answered 200, in a run that was not stopped
CrawledAll(i) ==
    /\ task[i].pc \in AfterProductStage
    /\ Distinct(task[i].product_links)
    /\ AllAnswered(i)
    /\ ~is_stopped(Id(i))

C17_NoRefetch ==
    \A i \in Runs :
        /\ ~task[i].refetched
        /\ \A link \in task[i].visited :
              \E k \in DOMAIN task[i].product_links :
                  task[i].product_links[k] = link

\* C18: once the runs of the front end's threads have all returned,
\* global_stats.processed and global_stats.success have each grown by the
\* number of runs that succeeded
C18_CountersCountSuccesses ==
    (\A i \in Runs : task[i].pc = "returned") =>
        LET k == Cardinality({i \in Runs : task[i].result.success})
        IN /\ global_stats.processed = k
           /\ global_stats.success = k

\* the sites where a run waits: the pause loops and the backoff sleep
WaitSites == {"f_wait", "x_wait", "f_backoff"}

\* C19: in a batch with cap >= 2, while one run waits in a pause loop or in
\* its backoff sleep, a run of the batch that has not started can start
C19_WaitDoesNotBlock ==
    \A i, j \in Runs :
        (concurrent_limit >= 2 /\ task[i].pc \in WaitSites
           /\ task[j].pc = "created") =>
            ENABLED process_url_with_limit(j)

\* run i is in a pause loop
InWait(i) == i \in DOMAIN task /\ task[i].pc \in {"f_wait", "x_wait"}

\* C20: a run in a pause loop that reads paused=true and stopped=false
\* stays where it is and sends no GET; and when its entry is in the end not
\* paused any more (resume was called, pause not again), the run leaves the
\* loop
C20_PausedRunWaits ==
    /\ [][\A i \in DOMAIN task \cap DOMAIN task' :
            (InWait(i) /\ is_paused(Id(i)) /\ ~is_stopped(Id(i))) =>
                /\ task'[i].pc = task[i].pc
                /\ task'[i].any_get = task[i].any_get
                /\ task'[i].fetch_gets = task[i].fetch_gets
                /\ task'[i].visited = task[i].visited]_vars
    /\ \A i \in 1..MaxUrls :
          <>[](~is_paused(Id(i))) => []<>(~InWait(i))

\* a paused run that left its pause loop after a resume
C20_Witness ==
    \E i \in Runs : task[i].waited = "resumed"

\* the fields of an entry
EntryFields == {"paused", "stopped", "url", "progress", "stage"}

\* reg and after have the same entries, equal in every field but, at most,
\* field flag of entry id
OnlyFlag(reg, after, id, flag) ==
    /\ DOMAIN after = DOMAIN reg
    /\ \A x \in DOMAIN reg : \A f \in EntryFields :
         (x # id \/ f # flag) => after[x][f] = reg[x][f]

\* C24: pause, resume and stop are idempotent and change only their own
\* flag of the addressed entry; for an id that is not registered, pause,
\* resume, stop and update_progress leave the registry unchanged and
\* is_paused and is_stopped are false
C24_ControlIdempotent ==
    \A id \in RegistryIds :
      /\ pause(pause(states, id), id) = pause(states, id)
      /\ resume(resume(states, id), id) = resume(states, id)
      /\ stop(stop(states, id), id) = stop(states, id)
      /\ OnlyFlag(states, pause(states, id), id, "paused")
      /\ OnlyFlag(states, resume(states, id), id, "paused")
      /\ OnlyFlag(states, stop(states, id), id, "stopped")
      /\ id \notin DOMAIN states =>
           /\ pause(states, id) = states
           /\ resume(states, id) = states
           /\ stop(states, id) = states
           /\ \A site \in ProgressSites : Progress(states, id, site) = states
           /\ ~is_paused(id)
           /\ ~is_stopped(id)

\* an entry that was paused and stopped, next to an id never registered
C24_Witness ==
    /\ \E id \in DOMAIN states : states[id].paused /\ states[id].stopped
    /\ RegistryIds \ DOMAIN states # {}
    /\ requests = 0

\* process_url has returned from run i
Returned(i) == task[i].pc \in {"returned", "done"}

\* C27: after process_url returns, with success or with any failure, the
\* entry of the run has progress >= 100 or stopped = true, so that the
\* pollers see the run as finished
C27_ReturnedIsFinished ==
    \A i \in Runs :
      Returned(i) =>
        states[Id(i)].progress >= 100 \/ states[Id(i)].stopped

\* C29: after sequentially executed process_url calls, processed equals
\* success + fail, and equals the number of calls that have returned
C29_ProcessedIsSuccessPlusFail ==
    ~LoopBusy =>
      /\ global_stats.processed = global_stats.success + global_stats.fail
      /\ global_stats.processed = Cardinality({i \in Runs : Returned(i)})

\* C30: when at least one URL of a batch succeeded, the success flag of the
\* result of process_batch_urls is true
C30_SuccessIfAnySucceeded ==
    (bpc = "returned" /\ "successful" \in DOMAIN results /\ results.successful > 0)
      => results.success

\* no extraction is paused
NoRunPaused == \A id \in DOMAIN states : ~states[id].paused

\* C28: process_batch_urls eventually returns a result for every non-empty
\* URL list and every cap >= 0, when every HTTP call returns and no
\* extraction is left paused for ever
C28_BatchReturns == <>[]NoRunPaused => <>(bpc = "returned")

\* the stop request for the run of the form has been issued, and the run
\* had not written its last checkpoint by then
StopIssued ==
    /\ web # <<>>
    /\ requests = 0
    /\ task[1].pc \notin {"g_processed", "g_success", "returned"}

\* C26: if stop(id) is issued at any time after the front end has started
\* the extraction with that id, the run ends without reaching progress 100,
\* in every interleaving of the request thread and the extraction thread:
\* once the stop is issued, no step writes progress 100
C26_StopNeverLost ==
    [][StopIssued =>
         (Id(1) \in DOMAIN states' => states'[Id(1)].progress < 100)]_vars

\* the URLs of batch b that its loop has not counted yet
OpenUrls(b) ==
    IF batches[b].pc \in {"gather", "g_remaining"}
    THEN Len(batches[b].urls) - batches[b].index
    ELSE 0

RECURSIVE SumOpenUrls(_)
SumOpenUrls(n) == IF n = 0 THEN 0 ELSE OpenUrls(n) + SumOpenUrls(n - 1)

\* C25: the remaining counter is never negative and, between the
\* decrements, equals the number of batch URLs not yet completed (0 when
\* no batch is running), also when two batches run concurrently
C25_RemainingCountsOpenUrls ==
    /\ global_stats.remaining >= 0
    /\ (\A b \in DOMAIN batches : batches[b].pc # "g_remaining")
         => global_stats.remaining = SumOpenUrls(Len(batches))

\* the enrichment stage of run i is over
Enriched(i) ==
    /\ task[i].pc \in {"p_finalize", "g_processed", "g_success", "returned"}
    /\ task[i].stages # <<>>
    /\ task[i].stages[Len(task[i].stages)] = "enrich"

\* the company of run i as it is now
Company(i) == Entity(urls[i], task[i].company, task[i].products)

\* the category that the reply of service A carries
ReturnedCategory(reply) ==
    IF "list" \in DOMAIN reply.enriched_data.productCategories
    THEN reply.enriched_data.productCategories.list[1]
    ELSE reply.enriched_data.productCategories.scalar

\* C21: enrichment never overwrites a non-empty, non-generic field: a
\* company type that was non-empty and not generic ("Other"/"Technology"
\* for enrich_data, "Other" for query_knowledge_graph) is unchanged, every
\* product that had a main category keeps it, and only products lacking
\* one receive the returned one
C21_EnrichmentKeepsFields ==
    \A i \in Runs :
      Enriched(i) =>
        LET before == task[i].extracted
            between == task[i].enriched
            after == Company(i)
        IN /\ before.company_type \notin {"", "Other", "Technology"}
                => between.company_type = before.company_type
           /\ between.company_type \notin {"", "Other"}
                => after.company_type = between.company_type
           /\ DOMAIN after.products = DOMAIN before.products
           /\ \A k \in DOMAIN before.products :
                /\ before.products[k].main_category # ""
                     => after.products[k] = before.products[k]
                /\ after.products[k] # before.products[k]
                     => /\ before.products[k].main_category = ""
                        /\ after.products[k] =
                             [before.products[k] EXCEPT
                                !.main_category = ReturnedCategory(task[i].azure)]

\* both services answered with a type and a category for a company whose
\* page gave it a type and its product a category, and for one whose
\* product lacked the category
C21_Witness ==
    \E i \in Runs :
      /\ task[i].pc = "returned"
      /\ Enriched(i)
      /\ task[i].extracted.company_type = "Retail"
      /\ task[i].azure.kind = "enriched"
      /\ DOMAIN task[i].azure.enriched_data = {"refinedCompanyType", "productCategories"}
      /\ ~AzureFails(task[i].azure)
      /\ task[i].knowledge_graph.kind = "item"
      /\ "description" \in DOMAIN task[i].knowledge_graph.item
      /\ \E k \in DOMAIN task[i].products :
           task[i].extracted.products[k].main_category = "Tools"
      /\ task[i].company.company_type = "Retail"

\* C22: if an enrichment call fails at any point, enrichment is skipped:
\* the record holds exactly the field values it had before the call, with
\* no partial merge, and process_url still reports success
C22_FailedEnrichmentSkipped ==
    \A i \in Runs :
      Enriched(i) =>
        /\ AzureFails(task[i].azure) => task[i].enriched = task[i].extracted
        /\ KnowledgeGraphFails(task[i].knowledge_graph)
             => Company(i) = task[i].enriched
        /\ task[i].pc = "returned" => task[i].result.success

\* the stages in their order
StageOrder == <<"company", "contact", "product", "enrich">>

\* C23: in every run whose fetch succeeded the stages execute exactly once
\* each, in the order company, contact, product, enrichment, whatever
\* happened inside a stage, and process_url does not fail
C23_StagesInOrder ==
    \A i \in Runs :
      /\ Len(task[i].stages) <= Len(StageOrder)
      /\ task[i].stages = SubSeq(StageOrder, 1, Len(task[i].stages))
      /\ (task[i].got200 /\ task[i].pc = "returned")
           => /\ task[i].stages = StageOrder
              /\ task[i].result.success

\* a run whose fetch returned a content, the page that makes
\* CompanyExtractor.extract raise included, executes the four stages in
\* order and succeeds
StagesInOrderWithContent ==
    \A i \in Runs :
      (~Falsy(task[i].content) /\ task[i].pc = "returned")
        => /\ task[i].stages = StageOrder
           /\ task[i].result.success
====
